---- MODULE Spec2Model ----
(***************************************************************************)
(* A model of the ICESat-2 hackweek tutorial helpers.                      *)
(*                                                                         *)
(* ParquetTable (book/tutorials/cloud-computing/atl08_parquet_helpers.py): *)
(*   - the schema builder        create_pyarrow_schema, datasets_to_fields *)
(*   - the envelope reducer      result_bbox, results_bounds               *)
(*   - the beam converter        get_group_chunks, chunks_to_tables        *)
(*   - the partitioned writer    update_schema_geo_metadata,               *)
(*                               write_results_by_partition                *)
(*                                                                         *)
(* VSCM (book/tutorials/nb-to-package/climate_model.py): run, over the     *)
(* emission table of co2_emissions.py.                                     *)
(*                                                                         *)
(* EggsellentCook (book/tutorials/nb-to-package/simple_eggsample/src/      *)
(* eggsample/eggsellent_cook.py): the cooks and the condiments tray.       *)
(*                                                                         *)
(* Six specifications share the variables:                                 *)
(*   SpecModel     run calls on a climate model                            *)
(*   SpecCook      cooks adding, preparing and serving                     *)
(*   SpecInit      the constructor, on a geometadata and a template file   *)
(*   SpecConv      a writer built from a template; chunks_to_tables calls  *)
(*   SpecEnvelope  results_bounds calls on granule collections             *)
(*   Spec          one run of write_results_by_partition, with its tasks   *)
(***************************************************************************)
EXTENDS Integers, Sequences, FiniteSets, TLC

VARIABLES
    template,        \* SpecConv: the template file's layout (optional datasets)
    schema,          \* SpecConv: self.schema, built by __init__
    conv,            \* SpecConv: the last chunks_to_tables call and its outcome
                     \* SpecInit: the constructor call and its outcome
    results,         \* SpecEnvelope: the granule collection passed to results_bounds
    envelope,        \* SpecEnvelope: the outcome of results_bounds(results)
    results_list,    \* Spec: the granules passed to write_results_by_partition
    pc,              \* Spec: where the writer is
    error,           \* Spec: the exception that left write_results_by_partition
    beam_index,      \* Spec: the index in beams of the beam being processed
    submitted,       \* Spec: the tasks submitted to the pool for this beam
    futures,         \* Spec: per granule, the state and result of this beam's task
    outcomes,        \* Spec: per beam and granule, how its task ended (history)
    combined,        \* Spec: combined_table, as the tables concatenated into it
    sink,            \* Spec: the ParquetWriter on the output file
    geometadata,     \* Spec: self.geometadata (its columns.geometry.bbox)
    results_schema,  \* Spec: the schema returned by update_schema_geo_metadata
    printed,         \* Spec: the exceptions printed to stdout
    skipped,         \* Spec: the tasks whose exception the writer caught (history)
    ret,             \* Spec: what write_results_by_partition returned to its caller
    reused,          \* Spec: the writer has served an earlier call
    y0,              \* SpecModel: self.y0 of the climate model
    time,            \* SpecModel: self.time
    temp,            \* SpecModel: self.temp
    co2,             \* SpecModel: self.co2
    end_year,        \* SpecModel: the argument of the run call in progress or last made
    run_i,           \* SpecModel: the local i of run
    loop,            \* SpecModel: where run is
    calls,           \* SpecModel: the run calls made on the model (history)
    condiments_tray, \* SpecCook: the module-level condiments_tray
    ingredients,     \* SpecCook: per cook, self.ingredients
    served           \* SpecCook: the serve_the_food calls made (history)

convVars == <<template, schema, conv>>
envVars == <<results, envelope>>
writerVars == <<results_list, pc, error, beam_index, submitted, futures, outcomes, combined, sink,
                geometadata, results_schema, printed, skipped, ret, reused>>
modelVars == <<y0, time, temp, co2, end_year, run_i, loop, calls>>
cookVars == <<condiments_tray, ingredients, served>>
tutorialVars == <<modelVars, cookVars>>
vars == <<template, schema, conv, results, envelope, results_list, pc, error, beam_index, submitted,
          futures, outcomes, combined, sink, geometadata, results_schema, printed,
          skipped, ret, reused, y0, time, temp, co2, end_year, run_i, loop, calls,
          condiments_tray, ingredients, served>>

(***************************************************************************)
(* Bounds of the model.                                                    *)
(***************************************************************************)
MaxMembers == 2      \* optional datasets of a template, over its three groups
MaxSize == 5         \* rows of a beam's segment datasets
MaxChunk == 2        \* on-disk chunk size of a beam's latitude dataset
MaxGranules == 2     \* granules of a collection
MaxWorkers == 2      \* threads of the ThreadPoolExecutor
MaxFailures == 2     \* conversion tasks that raise in one run of the writer
MaxSpan == 4         \* years from the start year to the latest end_year of a run call
MaxRuns == 3         \* run calls on one climate model
MaxCooks == 2        \* EggsellentCook instances
MaxServes == 3       \* serve_the_food calls made on the cooks

Min(a, b) == IF a <= b THEN a ELSE b

\* The value of a variable that a specification does not use.
Idle == "idle"

ModelIdle ==
    /\ y0 = Idle /\ time = Idle /\ temp = Idle /\ co2 = Idle /\ end_year = Idle
    /\ run_i = Idle /\ loop = Idle /\ calls = Idle

CookIdle == condiments_tray = Idle /\ ingredients = Idle /\ served = Idle

(***************************************************************************)
(* HDF5 files.  A group is the sequence of its members in group.keys()     *)
(* order; a member is a dataset (with the rank of its chunk layout and its *)
(* on-disk dtype) or a subgroup.                                           *)
(***************************************************************************)
NDims == {1, 2, 3}

SegExtraKeys == <<"msw_flag", "night_flag", "segment_snowcover", "segment_watermask">>
CanopyKeys == <<"canopy_h_metrics", "h_canopy", "n_ca_photons", "subset_can_flag">>
TerrainKeys == <<"h_te_best_fit", "h_te_mean", "n_te_photons", "terrain_slope">>

\* On-disk dtypes, byte order first: the rank-2 datasets of the pools are
\* stored big-endian so that the byte-order normalisation has something to do.
DTypeOf(key, ndim) ==
    CASE key \in {"latitude", "longitude"} -> "<f4"
      [] key = "delta_time" -> "<f8"
      [] ndim = 2 -> ">f4"
      [] ndim = 3 -> ">i4"
      [] OTHER -> "<i4"

Dataset(key, ndim) ==
    [key |-> key, kind |-> "Dataset", ndim |-> ndim, dtype |-> DTypeOf(key, ndim)]

SubGroup(key) == [key |-> key, kind |-> "Group", ndim |-> 0, dtype |-> "none"]

Datasets(keys, ndims) == [i \in 1..Len(ndims) |-> Dataset(keys[i], ndims[i])]

\* The three groups of a file with layout lay (the ranks of its optional
\* datasets); keys come in h5py's (alphabetical) iteration order.
LandSegmentsGroup(lay) ==
    <<SubGroup("canopy"), Dataset("delta_time", 1), Dataset("latitude", 1),
      Dataset("longitude", 1)>>
        \o Datasets(SegExtraKeys, lay.seg) \o <<SubGroup("terrain")>>

CanopyGroup(lay) == Datasets(CanopyKeys, lay.canopy)

TerrainGroup(lay) == Datasets(TerrainKeys, lay.terrain)

SeqsUpTo(S, n) == UNION {[1..k -> S] : k \in 0..n}

Layouts ==
    {lay \in [seg : SeqsUpTo(NDims, MaxMembers), canopy : SeqsUpTo(NDims, MaxMembers),
              terrain : SeqsUpTo(NDims, MaxMembers)] :
        Len(lay.seg) + Len(lay.canopy) + Len(lay.terrain) <= MaxMembers}

(***************************************************************************)
(* The schema builder.                                                     *)
(***************************************************************************)
\* dtype.newbyteorder("="): the same element type in native byte order.
NewByteOrder(dtype) ==
    CASE dtype \in {"<f4", ">f4"} -> "=f4"
      [] dtype \in {"<f8", ">f8"} -> "=f8"
      [] dtype \in {"<i4", ">i4"} -> "=i4"
      [] OTHER -> dtype

\* pa.from_numpy_dtype
FromNumpyDtype(dtype) ==
    CASE dtype = "=f4" -> "float"
      [] dtype = "=f8" -> "double"
      [] dtype = "=i4" -> "int32"
      [] OTHER -> "unsupported"

Field(name, type) == [name |-> name, type |-> type]

RECURSIVE datasets_to_fields(_)
datasets_to_fields(group) ==
    IF group = <<>> THEN <<>>
    ELSE LET m == Head(group) IN
         (IF m.kind = "Dataset"
             THEN <<Field(m.key, FromNumpyDtype(NewByteOrder(m.dtype)))>>
             ELSE <<>>) \o datasets_to_fields(Tail(group))

SyntheticFields ==
    <<Field("geometry", "binary"), Field("timestamp", "timestamp[ns]"),
      Field("beam", "string"), Field("strength", "string")>>

\* A faulty variant: the synthetic fields appended after the canopy fields.
create_pyarrow_schema_late(lay) ==
    datasets_to_fields(LandSegmentsGroup(lay)) \o datasets_to_fields(CanopyGroup(lay))
        \o SyntheticFields \o datasets_to_fields(TerrainGroup(lay))

create_pyarrow_schema(lay) ==
    LET land_segment_fields == datasets_to_fields(LandSegmentsGroup(lay)) \o SyntheticFields
        canopy_fields == datasets_to_fields(CanopyGroup(lay))
        terrain_fields == datasets_to_fields(TerrainGroup(lay))
    IN  land_segment_fields \o canopy_fields \o terrain_fields

(***************************************************************************)
(* The per-granule beam converter.                                         *)
(***************************************************************************)
beams == <<"gt1l", "gt1r", "gt2l", "gt2r", "gt3l", "gt3r">>

BeamSet == {beams[i] : i \in 1..Len(beams)}

Orientations == {0, 1, 2}

\* beam[-1]
BeamSuffix(beam) == IF beam \in {"gt1l", "gt2l", "gt3l"} THEN "l" ELSE "r"

\* A faulty variant: the strong side does not flip with the orientation.
BeamStrength_noflip(orientation, beam) ==
    IF orientation = 2 THEN "degraded"
    ELSE IF BeamSuffix(beam) = "l" THEN "strong"
    ELSE "weak"

\* The if/elif chain on file['orbit_info']['sc_orient'][0] and beam[-1].
BeamStrength(orientation, beam) ==
    IF orientation = 0 /\ BeamSuffix(beam) = "l" THEN "strong"
    ELSE IF orientation = 1 /\ BeamSuffix(beam) = "r" THEN "strong"
    ELSE IF orientation = 2 THEN "degraded"
    ELSE "weak"

\* dataset[offset:offset+chunk_size] of a dataset with size rows: the row
\* indices (0-based) the slice holds, in order.
Slice(size, offset, chunk_size) ==
    LET lo == Min(offset, size)
        hi == Min(offset + chunk_size, size)
    IN  [i \in 1..(hi - lo) |-> lo + i - 1]

\* A column array: the dataset (or synthetic column) it was derived from, the
\* rows it holds, and what each row holds ("data": the dataset's values, "col0":
\* the first column of a rank-2 dataset, otherwise a constant label).
Array(src, rows, val) == [src |-> src, rows |-> rows, val |-> val]

RECURSIVE get_group_chunks(_, _, _, _)
get_group_chunks(group, size, offset, chunk_size) ==
    IF group = <<>> THEN <<>>
    ELSE LET m == Head(group)
             rows == Slice(size, offset, chunk_size)
         IN  (IF m.kind = "Dataset"
                 THEN IF m.ndim = 1 THEN <<Array(m.key, rows, "data")>>
                      ELSE IF m.ndim = 2 THEN <<Array(m.key, rows, "col0")>>
                      ELSE <<>>
                 ELSE <<>>) \o get_group_chunks(Tail(group), size, offset, chunk_size)

\* A faulty variant: the timestamps appended before the geometries.
ChunkPass_swapped(file, beam, strength, n) ==
    LET offset == n * file.chunk_size
        rows == Slice(file.size, offset, file.chunk_size)
    IN  [offset |-> offset,
         land_segment_chunks |->
             get_group_chunks(LandSegmentsGroup(file.layout), file.size, offset,
                              file.chunk_size)
                 \o <<Array("timestamp", rows, "gps"), Array("geometry", rows, "wkb"),
                      Array("beam", rows, beam), Array("strength", rows, strength)>>]

\* One pass of the body of "for n in range(number_of_chunks)": the offset and
\* the land_segment_chunks it leaves behind.
ChunkPass(file, beam, strength, n) ==
    LET offset == n * file.chunk_size
        rows == Slice(file.size, offset, file.chunk_size)
        land_segment_chunks ==
            get_group_chunks(LandSegmentsGroup(file.layout), file.size, offset,
                             file.chunk_size)
        geometries == Array("geometry", rows, "wkb")
        timestamps == Array("timestamp", rows, "gps")
        beam_values == Array("beam", rows, beam)
        strength_values == Array("strength", rows, strength)
    IN  [offset |-> offset,
         land_segment_chunks |->
             land_segment_chunks \o <<geometries, timestamps, beam_values, strength_values>>]

\* The loop: each pass rebinds offset and land_segment_chunks, so the loop
\* leaves the values of its last pass; passes counts the passes made.
RECURSIVE ChunkLoop(_, _, _, _, _, _)
ChunkLoop(file, beam, strength, n, number_of_chunks, last) ==
    IF n >= number_of_chunks THEN last
    ELSE LET p == ChunkPass(file, beam, strength, n)
         IN  ChunkLoop(file, beam, strength, n + 1, number_of_chunks,
                       [offset |-> p.offset, land_segment_chunks |-> p.land_segment_chunks,
                        passes |-> last.passes + 1])

\* pa.Table.from_arrays(chunks, schema=group_schema): one array per field, all
\* of one length; the arrays take the fields' names by position.
FromArrays(chunks, group_schema) ==
    IF Len(chunks) # Len(group_schema) THEN [ok |-> FALSE, table |-> <<>>]
    ELSE IF \E i, j \in 1..Len(chunks) : Len(chunks[i].rows) # Len(chunks[j].rows)
         THEN [ok |-> FALSE, table |-> <<>>]
    ELSE [ok |-> TRUE,
          table |-> [i \in 1..Len(chunks) |->
                        [name |-> group_schema[i].name, array |-> chunks[i]]]]

\* A faulty variant: the canopy and terrain arrays are taken from the start of
\* the datasets, whatever the offset of the segment arrays.
chunks_to_tables_restart(file, beam, group_schema) ==
    LET strength == BeamStrength(file.orientation, beam)
        number_of_chunks == (file.size \div file.chunk_size) + 1
        last == ChunkLoop(file, beam, strength, 0, number_of_chunks,
                          [offset |-> 0, land_segment_chunks |-> <<>>, passes |-> 0])
        canopy_chunks == get_group_chunks(CanopyGroup(file.layout), file.size, 0,
                                          file.chunk_size)
        terrain_chunks == get_group_chunks(TerrainGroup(file.layout), file.size, 0,
                                           file.chunk_size)
        chunks == last.land_segment_chunks \o canopy_chunks \o terrain_chunks
        made == FromArrays(chunks, group_schema)
    IN  [status |-> IF made.ok THEN "returned" ELSE "raised",
         tables |-> IF made.ok THEN <<made.table>> ELSE <<>>,
         strength |-> strength,
         number_of_chunks |-> number_of_chunks,
         passes |-> last.passes,
         chunks |-> chunks]

\* chunks_to_tables on an opened granule file: the status, the tables returned
\* and, for the record, the strength assigned, the passes of the chunk loop
\* and the arrays handed to pa.Table.from_arrays.
chunks_to_tables(file, beam, group_schema) ==
    LET strength == BeamStrength(file.orientation, beam)
        number_of_chunks == (file.size \div file.chunk_size) + 1
        last == ChunkLoop(file, beam, strength, 0, number_of_chunks,
                          [offset |-> 0, land_segment_chunks |-> <<>>, passes |-> 0])
        canopy_chunks == get_group_chunks(CanopyGroup(file.layout), file.size, last.offset,
                                          file.chunk_size)
        terrain_chunks == get_group_chunks(TerrainGroup(file.layout), file.size, last.offset,
                                           file.chunk_size)
        chunks == last.land_segment_chunks \o canopy_chunks \o terrain_chunks
        made == FromArrays(chunks, group_schema)
    IN  [status |-> IF made.ok THEN "returned" ELSE "raised",
         tables |-> IF made.ok THEN <<made.table>> ELSE <<>>,
         strength |-> strength,
         number_of_chunks |-> number_of_chunks,
         passes |-> last.passes,
         chunks |-> chunks]

GranuleFile(lay, orientation, size, chunk_size) ==
    [layout |-> lay, orientation |-> orientation, size |-> size, chunk_size |-> chunk_size]

(***************************************************************************)
(* SpecConv: a writer constructed from a template file, then calls of      *)
(* chunks_to_tables on granule files of the template's layout.             *)
(***************************************************************************)
NoConv == [called |-> FALSE]

InitConv ==
    /\ template \in Layouts
    /\ schema = create_pyarrow_schema(template)
    /\ conv = NoConv
    /\ results = Idle
    /\ envelope = Idle
    /\ results_list = Idle /\ pc = Idle /\ error = Idle /\ beam_index = Idle /\ submitted = Idle
    /\ futures = Idle /\ outcomes = Idle /\ combined = Idle /\ sink = Idle
    /\ geometadata = Idle /\ results_schema = Idle /\ printed = Idle /\ skipped = Idle
    /\ ret = Idle /\ reused = Idle
    /\ ModelIdle /\ CookIdle

ChunksToTablesCall ==
    \E beam \in BeamSet, orientation \in Orientations, size \in 0..MaxSize,
       chunk_size \in 1..MaxChunk :
        LET file == GranuleFile(template, orientation, size, chunk_size) IN
        /\ ~conv.called
        /\ conv' = [called |-> TRUE, beam |-> beam, file |-> file,
                    out |-> chunks_to_tables(file, beam, schema)]
        /\ UNCHANGED <<template, schema, envVars, writerVars, tutorialVars>>

NextConv == ChunksToTablesCall

SpecConv == InitConv /\ [][NextConv]_vars

(***************************************************************************)
(* The spatial envelope reducer.  A granule carries the boundary points of *)
(* its first polygon; a shapely geometry is kept as the set of boxes it is *)
(* the union of.                                                           *)
(***************************************************************************)
Lons == {0, 5, 10, 20}
Lats == {0, 5, 10, 20}

Point(lon, lat) == [Longitude |-> lon, Latitude |-> lat]

\* A granule whose polygon is the rectangle with the given corners, the
\* boundary listed from the upper right corner.
Granule(w, s, e, n) ==
    [Points |-> <<Point(e, n), Point(w, n), Point(w, s), Point(e, s)>>]

Granules ==
    {Granule(w, s, e, n) : <<w, s, e, n>> \in
        {q \in Lons \X Lats \X Lons \X Lats : q[1] < q[3] /\ q[2] < q[4]}}

SetMin(S) == CHOOSE x \in S : \A y \in S : x <= y
SetMax(S) == CHOOSE x \in S : \A y \in S : x >= y

\* shapely.geometry.box(minx, miny, maxx, maxy)
Box(minx, miny, maxx, maxy) == [minx |-> minx, miny |-> miny, maxx |-> maxx, maxy |-> maxy]

result_bbox(result) ==
    LET points == result.Points
        longitudes == {points[i].Longitude : i \in 1..Len(points)}
        latitudes == {points[i].Latitude : i \in 1..Len(points)}
    IN  {Box(SetMin(longitudes), SetMin(latitudes), SetMax(longitudes), SetMax(latitudes))}

\* a.union(b)
Union(a, b) == a \cup b

\* list(geometry.envelope.bounds)
EnvelopeBounds(geometry) ==
    <<SetMin({b.minx : b \in geometry}), SetMin({b.miny : b \in geometry}),
      SetMax({b.maxx : b \in geometry}), SetMax({b.maxy : b \in geometry})>>

RECURSIVE UnionLoop(_, _)
UnionLoop(union_bbox, rest) ==
    IF rest = <<>> THEN union_bbox
    ELSE UnionLoop(Union(union_bbox, result_bbox(Head(rest))), Tail(rest))

\* A faulty variant: the loop rebinds union_bbox to each granule's box
\* instead of accumulating the union.
RECURSIVE LastLoop(_, _)
LastLoop(union_bbox, rest) ==
    IF rest = <<>> THEN union_bbox
    ELSE LastLoop(result_bbox(Head(rest)), Tail(rest))

results_bounds_last(rs) ==
    IF rs = <<>> THEN [status |-> "raised", error |-> "IndexError", value |-> <<>>]
    ELSE [status |-> "returned", error |-> "none",
          value |-> EnvelopeBounds(LastLoop(result_bbox(rs[1]), rs))]

\* results[0] of an empty list raises IndexError before anything is computed.
results_bounds(rs) ==
    IF rs = <<>> THEN [status |-> "raised", error |-> "IndexError", value |-> <<>>]
    ELSE [status |-> "returned", error |-> "none",
          value |-> EnvelopeBounds(UnionLoop(result_bbox(rs[1]), rs))]

(***************************************************************************)
(* SpecEnvelope: results_bounds called on a granule collection.            *)
(***************************************************************************)
InitEnvelope ==
    /\ results \in SeqsUpTo(Granules, MaxGranules)
    /\ envelope = [called |-> FALSE]
    /\ template = Idle
    /\ schema = Idle
    /\ conv = Idle
    /\ results_list = Idle /\ pc = Idle /\ error = Idle /\ beam_index = Idle /\ submitted = Idle
    /\ futures = Idle /\ outcomes = Idle /\ combined = Idle /\ sink = Idle
    /\ geometadata = Idle /\ results_schema = Idle /\ printed = Idle /\ skipped = Idle
    /\ ret = Idle /\ reused = Idle
    /\ ModelIdle /\ CookIdle

ResultsBoundsCall ==
    /\ ~envelope.called
    /\ envelope' = [called |-> TRUE, out |-> results_bounds(results)]
    /\ UNCHANGED <<results, convVars, writerVars, tutorialVars>>

NextEnvelope == ResultsBoundsCall

SpecEnvelope == InitEnvelope /\ [][NextEnvelope]_vars

(***************************************************************************)
(* The partitioned table writer.  Spec is one call of                      *)
(* write_results_by_partition on a writer built from a template, together  *)
(* with the conversion tasks it submits to its thread pools.               *)
(***************************************************************************)
WriterLayout == [seg |-> <<>>, canopy |-> <<1>>, terrain |-> <<2>>]

\* The granules a call is given: a boundary and the file behind data_links.
WriterGranule(w, s, e, n, orientation, size, chunk_size) ==
    [Points |-> Granule(w, s, e, n).Points,
     file |-> GranuleFile(WriterLayout, orientation, size, chunk_size)]

GranulePool ==
    <<WriterGranule(0, 0, 10, 10, 0, 3, 2), WriterGranule(5, 5, 20, 20, 1, 2, 2),
      WriterGranule(0, 5, 5, 10, 2, 1, 1), WriterGranule(10, 0, 20, 5, 0, 0, 1)>>

\* columns.geometry.bbox of the geometadata document the writer was built from.
DocumentBBox == <<-180, -90, 180, 90>>

\* What an exception carries: its type, and the granule and beam it names
\* (granule 0 and beam "none": it names neither).
Exception(type) == [type |-> type, granule |-> 0, beam |-> "none"]

NoException == [type |-> "none", granule |-> 0, beam |-> "none"]

\* The exceptions chunks_to_tables lets through: a missing group or dataset
\* (KeyError), a value that does not decode or convert (ValueError).
ConversionErrors == {"KeyError", "ValueError"}

NoFuture == [state |-> "none", tables |-> <<>>, exception |-> NoException]

N == Len(results_list)

Running == {i \in 1..N : futures[i].state = "running"}

Finished == {i \in 1..N : futures[i].state \in {"returned", "raised"}}

Failures ==
    Cardinality({u \in (1..Len(beams)) \X (1..N) : outcomes[u[1]][u[2]] = "raised"})

Init ==
    /\ template = WriterLayout
    /\ schema = create_pyarrow_schema(WriterLayout)
    /\ conv = Idle
    /\ results = Idle
    /\ envelope = Idle
    /\ results_list \in {SubSeq(GranulePool, 1, k) : k \in 0..MaxGranules}
    /\ pc = "start"
    /\ error = "none"
    /\ beam_index = 1
    /\ submitted = 0
    /\ futures = [i \in 1..N |-> NoFuture]
    /\ outcomes = [bi \in 1..Len(beams) |-> [i \in 1..N |-> "none"]]
    /\ combined = {}
    /\ sink = [opened |-> FALSE, closed |-> FALSE, busy |-> {}, log |-> <<>>,
               bbox |-> <<>>]
    /\ geometadata = [bbox |-> DocumentBBox]
    /\ results_schema = [fields |-> <<>>, bbox |-> <<>>]
    /\ printed = 0
    /\ skipped = 0
    /\ ret = [value |-> "pending"]
    /\ reused = FALSE
    /\ ModelIdle /\ CookIdle

\* A faulty variant: the returned schema's metadata is serialised from the
\* document as the earlier call left it, before the new bounds are stored.
update_schema_geo_metadata_stale(bounds) ==
    [geometadata |-> [bbox |-> bounds],
     schema |-> [fields |-> schema, bbox |-> geometadata.bbox]]

\* update_schema_geo_metadata: the bounds are stored through the shallow copy
\* of self.geometadata, whose nested columns.geometry dict is shared with the
\* original, and in the metadata of the schema returned.
update_schema_geo_metadata(bounds) ==
    [geometadata |-> [bbox |-> bounds],
     schema |-> [fields |-> schema, bbox |-> bounds]]

\* A faulty variant: the ParquetWriter is opened before the bounds are
\* computed, so a failing results_bounds leaves an opened sink behind.
Start_opens_first ==
    /\ pc = "start"
    /\ LET r == results_bounds(results_list) IN
       IF r.status = "raised"
       THEN /\ pc' = "raised"
            /\ error' = r.error
            /\ sink' = [sink EXCEPT !.opened = TRUE]
            /\ UNCHANGED <<geometadata, results_schema>>
       ELSE LET u == update_schema_geo_metadata(r.value) IN
            /\ geometadata' = u.geometadata
            /\ results_schema' = u.schema
            /\ sink' = [sink EXCEPT !.opened = TRUE, !.bbox = u.schema.bbox]
            /\ pc' = "submit"
            /\ UNCHANGED error
    /\ UNCHANGED <<results_list, beam_index, submitted, futures, outcomes, combined,
                   printed, skipped, ret, reused, convVars, envVars, tutorialVars>>

\* Lines 181-182: the patched schema, then the ParquetWriter opened under it.
\* results_bounds raising leaves the call before the sink is opened.
Start ==
    /\ pc = "start"
    /\ LET r == results_bounds(results_list) IN
       IF r.status = "raised"
       THEN /\ pc' = "raised"
            /\ error' = r.error
            /\ UNCHANGED <<geometadata, results_schema, sink>>
       ELSE LET u == update_schema_geo_metadata(r.value) IN
            /\ geometadata' = u.geometadata
            /\ results_schema' = u.schema
            /\ sink' = [sink EXCEPT !.opened = TRUE, !.bbox = u.schema.bbox]
            /\ pc' = "submit"
            /\ UNCHANGED error
    /\ UNCHANGED <<results_list, beam_index, submitted, futures, outcomes, combined,
                   printed, skipped, ret, reused, convVars, envVars, tutorialVars>>

\* executor.submit(self.chunks_to_tables, result, fs, beam, results_schema), one
\* granule after the other; after the last, the writer waits.
Submit ==
    /\ pc = "submit"
    /\ submitted < N
    /\ submitted' = submitted + 1
    /\ futures' = [futures EXCEPT ![submitted + 1].state = "pending"]
    /\ pc' = IF submitted + 1 = N THEN "wait" ELSE "submit"
    /\ UNCHANGED <<results_list, error, beam_index, outcomes, combined, sink, geometadata,
                   results_schema, printed, skipped, ret, reused, convVars, envVars, tutorialVars>>

\* A pool thread takes a submitted task.
TaskStart(i) ==
    /\ futures[i].state = "pending"
    /\ Cardinality(Running) < MaxWorkers
    /\ futures' = [futures EXCEPT ![i].state = "running"]
    /\ UNCHANGED <<results_list, pc, error, beam_index, submitted, outcomes, combined, sink,
                   geometadata, results_schema, printed, skipped, ret, reused, convVars, envVars, tutorialVars>>

\* A faulty variant: the task appends its tables to the sink itself.
TaskReturn_writes(i) ==
    /\ futures[i].state = "running"
    /\ LET out == chunks_to_tables(results_list[i].file, beams[beam_index],
                                   results_schema.fields) IN
       /\ out.status = "returned"
       /\ futures' = [futures EXCEPT ![i] = [state |-> "returned", tables |-> out.tables,
                                            exception |-> NoException]]
       /\ sink' = [sink EXCEPT !.log = Append(@, [by |-> "task", beam |-> beams[beam_index],
                                                    tables |-> {[from |-> i, tables |-> out.tables]}])]
    /\ outcomes' = [outcomes EXCEPT ![beam_index][i] = "returned"]
    /\ UNCHANGED <<results_list, pc, error, beam_index, submitted, combined,
                   geometadata, results_schema, printed, skipped, ret, reused, convVars, envVars, tutorialVars>>

\* A faulty variant: the tasks append to one tables list they share, so a
\* task returns its own tables after those of the tasks that returned earlier.
TaskReturn_shared(i) ==
    /\ futures[i].state = "running"
    /\ LET out == chunks_to_tables(results_list[i].file, beams[beam_index],
                                   results_schema.fields)
           earlier == {j \in 1..N : futures[j].state = "returned"} IN
       /\ out.status = "returned"
       /\ futures' = [futures EXCEPT ![i] =
                        [state |-> "returned",
                         tables |-> IF earlier = {} THEN out.tables
                                    ELSE futures[CHOOSE j \in earlier : TRUE].tables
                                             \o out.tables,
                         exception |-> NoException]]
    /\ outcomes' = [outcomes EXCEPT ![beam_index][i] = "returned"]
    /\ UNCHANGED <<results_list, pc, error, beam_index, submitted, combined, sink,
                   geometadata, results_schema, printed, skipped, ret, reused, convVars, envVars, tutorialVars>>

\* The task's chunks_to_tables returns its tables: the future holds them.
TaskReturn(i) ==
    /\ futures[i].state = "running"
    /\ LET out == chunks_to_tables(results_list[i].file, beams[beam_index],
                                   results_schema.fields) IN
       /\ out.status = "returned"
       /\ futures' = [futures EXCEPT ![i] = [state |-> "returned", tables |-> out.tables,
                                            exception |-> NoException]]
    /\ outcomes' = [outcomes EXCEPT ![beam_index][i] = "returned"]
    /\ UNCHANGED <<results_list, pc, error, beam_index, submitted, combined, sink,
                   geometadata, results_schema, printed, skipped, ret, reused, convVars, envVars, tutorialVars>>

\* The task's chunks_to_tables raises (the granule cannot be opened, the beam
\* or a dataset is missing, a row does not decode): the future holds the
\* exception, which is the one raised inside, with nothing added to it.
TaskRaise(i) ==
    /\ futures[i].state = "running"
    /\ Failures < MaxFailures
    /\ \E type \in ConversionErrors :
           futures' = [futures EXCEPT ![i] = [state |-> "raised", tables |-> <<>>,
                                              exception |-> Exception(type)]]
    /\ outcomes' = [outcomes EXCEPT ![beam_index][i] = "raised"]
    /\ UNCHANGED <<results_list, pc, error, beam_index, submitted, combined, sink,
                   geometadata, results_schema, printed, skipped, ret, reused, convVars, envVars, tutorialVars>>

\* A faulty variant: the writer goes on as soon as one future is done.
Collect_early ==
    /\ pc = "wait"
    /\ Finished # {}
    /\ LET results_tables ==
               {[from |-> i, tables |-> futures[i].tables] :
                    i \in {j \in 1..N : futures[j].state = "returned"}}
           raised == {i \in 1..N : futures[i].state = "raised"}
       IN  /\ printed' = printed + Cardinality(raised)
           /\ skipped' = skipped + Cardinality(raised)
           /\ IF results_tables = {}
              THEN /\ pc' = "raised"
                   /\ error' = "ArrowInvalid"
                   /\ UNCHANGED combined
              ELSE /\ pc' = "write"
                   /\ combined' = results_tables
                   /\ UNCHANGED error
    /\ UNCHANGED <<results_list, beam_index, submitted, futures, outcomes, sink, geometadata,
                   results_schema, ret, reused, convVars, envVars, tutorialVars>>

\* Lines 189-196: wait returns once every future is done; the results of the
\* futures that returned are collected (in the set's iteration order, which the
\* model leaves out), the exceptions of the others printed; pa.concat_tables
\* raises on an empty list.
Collect ==
    /\ pc = "wait"
    /\ Finished = 1..N
    /\ LET results_tables ==
               {[from |-> i, tables |-> futures[i].tables] :
                    i \in {j \in 1..N : futures[j].state = "returned"}}
           raised == {i \in 1..N : futures[i].state = "raised"}
       IN  /\ printed' = printed + Cardinality(raised)
           /\ skipped' = skipped + Cardinality(raised)
           /\ IF results_tables = {}
              THEN /\ pc' = "raised"
                   /\ error' = "ArrowInvalid"
                   /\ UNCHANGED combined
              ELSE /\ pc' = "write"
                   /\ combined' = results_tables
                   /\ UNCHANGED error
    /\ UNCHANGED <<results_list, beam_index, submitted, futures, outcomes, sink, geometadata,
                   results_schema, ret, reused, convVars, envVars, tutorialVars>>

\* table_writer.write_table(combined_table) is entered.
WriteBegin ==
    /\ pc = "write"
    /\ sink' = [sink EXCEPT !.busy = @ \cup {"writer"}]
    /\ pc' = "writing"
    /\ UNCHANGED <<results_list, error, beam_index, submitted, futures, outcomes, combined,
                   geometadata, results_schema, printed, skipped, ret, reused, convVars, envVars, tutorialVars>>

\* write_table returns: the combined table is one more row group of the file;
\* the pool is shut down and the loop goes to the next beam.
WriteEnd ==
    /\ pc = "writing"
    /\ sink' = [sink EXCEPT !.busy = @ \ {"writer"},
                            !.log = Append(@, [by |-> "writer", beam |-> beams[beam_index],
                                               tables |-> combined])]
    /\ IF beam_index < Len(beams)
       THEN /\ beam_index' = beam_index + 1
            /\ submitted' = 0
            /\ futures' = [i \in 1..N |-> NoFuture]
            /\ pc' = "submit"
       ELSE /\ pc' = "close"
            /\ UNCHANGED <<beam_index, submitted, futures>>
    /\ UNCHANGED <<results_list, error, outcomes, combined, geometadata, results_schema,
                   printed, skipped, ret, reused, convVars, envVars, tutorialVars>>

\* A faulty variant: the rejected write is caught and the loop goes on with
\* the next beam.
WriteRejected_continues ==
    /\ pc = "writing"
    /\ beam_index < Len(beams)
    /\ sink' = [sink EXCEPT !.busy = @ \ {"writer"}]
    /\ beam_index' = beam_index + 1
    /\ submitted' = 0
    /\ futures' = [i \in 1..N |-> NoFuture]
    /\ pc' = "submit"
    /\ UNCHANGED <<results_list, error, outcomes, combined, geometadata, results_schema,
                   printed, skipped, ret, reused, convVars, envVars, tutorialVars>>

\* write_table raises (the sink rejects the write): the exception leaves
\* write_results_by_partition.
WriteRejected ==
    /\ pc = "writing"
    /\ sink' = [sink EXCEPT !.busy = @ \ {"writer"}]
    /\ pc' = "raised"
    /\ error' = "OSError"
    /\ UNCHANGED <<results_list, beam_index, submitted, futures, outcomes, combined,
                   geometadata, results_schema, printed, skipped, ret, reused, convVars, envVars, tutorialVars>>

\* table_writer.close(), and the implicit return None.
Close ==
    /\ pc = "close"
    /\ sink' = [sink EXCEPT !.closed = TRUE]
    /\ pc' = "done"
    /\ ret' = [value |-> "None"]
    /\ UNCHANGED <<results_list, error, beam_index, submitted, futures, outcomes, combined,
                   geometadata, results_schema, printed, skipped, reused, convVars, envVars, tutorialVars>>

\* The caller calls write_results_by_partition again on the same writer, with
\* another granule collection and a new output file: self.geometadata and
\* self.schema are what the earlier call left, everything else is the call's own.
NewCall ==
    /\ pc \in {"done", "raised"}
    /\ reused' = TRUE
    /\ results_list' \in {SubSeq(GranulePool, 1, k) : k \in 0..MaxGranules}
    /\ pc' = "start"
    /\ error' = "none"
    /\ beam_index' = 1
    /\ submitted' = 0
    /\ futures' = [i \in 1..Len(results_list') |-> NoFuture]
    /\ outcomes' = [bi \in 1..Len(beams) |-> [i \in 1..Len(results_list') |-> "none"]]
    /\ combined' = {}
    /\ sink' = [opened |-> FALSE, closed |-> FALSE, busy |-> {}, log |-> <<>>,
                bbox |-> <<>>]
    /\ results_schema' = [fields |-> <<>>, bbox |-> <<>>]
    /\ printed' = 0
    /\ skipped' = 0
    /\ ret' = [value |-> "pending"]
    /\ UNCHANGED <<geometadata, convVars, envVars, tutorialVars>>

Next ==
    \/ Start
    \/ Submit
    \/ \E i \in 1..N : TaskStart(i)
    \/ \E i \in 1..N : TaskReturn(i)
    \/ \E i \in 1..N : TaskRaise(i)
    \/ Collect
    \/ WriteBegin
    \/ WriteEnd
    \/ WriteRejected
    \/ Close
    \/ NewCall

Spec == Init /\ [][Next]_vars

(***************************************************************************)
(* Properties of the schema builder and the beam converter (SpecConv).     *)
(***************************************************************************)
CeilDiv(a, b) == (a + b - 1) \div b

Returned == conv.called /\ conv.out.status = "returned"

\* The rows a column holds over all the tables returned, in table order.
RECURSIVE RowsOf(_, _)
RowsOf(tables, col) ==
    IF tables = <<>> THEN <<>>
    ELSE Head(tables)[col].array.rows \o RowsOf(Tail(tables), col)

AllRows(size) == [i \in 1..size |-> i - 1]

\* C3: the number of chunks chunks_to_tables processes for a beam is
\* ceil(size / chunk_size): size / chunk_size when size is an exact multiple
\* of chunk_size, and m + 1 when size is m * chunk_size + 1.
C3_ChunkCountIsCeiling ==
    conv.called =>
        conv.out.passes = CeilDiv(conv.file.size, conv.file.chunk_size)

\* C4: the tables chunks_to_tables returns hold, in every column, every row
\* index 0..size-1 of the beam exactly once.
C4_EveryRowOnce ==
    Returned =>
        \A col \in 1..Len(schema) :
            RowsOf(conv.out.tables, col) = AllRows(conv.file.size)

\* The lookup table of the beam strength, by orientation and beam suffix.
StrengthTable(orientation, suffix) ==
    CASE orientation = 0 /\ suffix = "l" -> "strong"
      [] orientation = 0 /\ suffix = "r" -> "weak"
      [] orientation = 1 /\ suffix = "l" -> "weak"
      [] orientation = 1 /\ suffix = "r" -> "strong"
      [] orientation = 2 -> "degraded"

\* C7: the strength chunks_to_tables assigns is the lookup-table value for
\* (orientation, last character of the beam name), for all six beams and the
\* orientations 0, 1, 2, and it is the label every row of the strength column
\* of a returned table carries.
C7_StrengthIsLookup ==
    conv.called =>
        LET suffix == IF conv.beam \in {"gt1r", "gt2r", "gt3r"} THEN "r" ELSE "l"
            label == StrengthTable(conv.file.orientation, suffix)
        IN  /\ conv.out.strength = label
            /\ \A t \in 1..Len(conv.out.tables) : \A col \in 1..Len(schema) :
                   schema[col].name = "strength" =>
                       conv.out.tables[t][col].array.val = label

C7_Witness ==
    /\ Returned
    /\ conv.file.orientation = 1
    /\ conv.beam = "gt2r"
    /\ conv.out.strength = "strong"
    /\ conv.file.size > 0

Range(seq) == {seq[i] : i \in 1..Len(seq)}

Names(fields) == [i \in 1..Len(fields) |-> fields[i].name]

\* C9: the schema lists the segment-group dataset fields first, then geometry,
\* timestamp, beam, strength in that order, then the canopy-group fields, then
\* the terrain-group fields.
C9_SchemaOrder ==
    LET nSeg == 3 + Len(template.seg)
        nCan == Len(template.canopy)
        nTer == Len(template.terrain)
        names == Names(schema)
    IN  /\ Len(schema) = nSeg + 4 + nCan + nTer
        /\ SubSeq(names, 1, nSeg) =
               <<"delta_time", "latitude", "longitude">> \o SubSeq(SegExtraKeys, 1, nSeg - 3)
        /\ SubSeq(names, nSeg + 1, nSeg + 4) = <<"geometry", "timestamp", "beam", "strength">>
        /\ SubSeq(names, nSeg + 5, nSeg + 4 + nCan) = SubSeq(CanopyKeys, 1, nCan)
        /\ SubSeq(names, nSeg + 5 + nCan, Len(schema)) = SubSeq(TerrainKeys, 1, nTer)

C9_Witness ==
    /\ Len(template.seg) = 0
    /\ Len(template.canopy) > 0
    /\ Len(template.terrain) > 0
    /\ Len(schema) = 9

(***************************************************************************)
(* Properties of the envelope reducer (SpecEnvelope).                      *)
(***************************************************************************)
\* C5: results_bounds on an empty granule collection fails with
\* EmptyInputError and returns no box.
C5_EmptyInputError ==
    (envelope.called /\ results = <<>>) =>
        /\ envelope.out.status = "raised"
        /\ envelope.out.error = "EmptyInputError"

Injections(n) == {f \in [1..n -> 1..n] : \A i, j \in 1..n : f[i] = f[j] => i = j}

AllPoints(rs) == UNION {Range(rs[i].Points) : i \in 1..Len(rs)}

\* C6: for a non-empty collection results_bounds returns
\* [min_lon, min_lat, max_lon, max_lat] over all boundary points of all the
\* granules; the granules in any other order give the same result; the boxes
\* [0,0,10,10] and [5,5,20,20] give [0,0,20,20].
C6_EnvelopeOfAllPoints ==
    (envelope.called /\ results # <<>>) =>
        LET pts == AllPoints(results)
            lons == {p.Longitude : p \in pts}
            lats == {p.Latitude : p \in pts}
        IN  /\ envelope.out.status = "returned"
            /\ envelope.out.value =
                   <<SetMin(lons), SetMin(lats), SetMax(lons), SetMax(lats)>>
            /\ \A f \in Injections(Len(results)) :
                   results_bounds([i \in 1..Len(results) |-> results[f[i]]]).value
                       = envelope.out.value
            /\ results = <<Granule(0, 0, 10, 10), Granule(5, 5, 20, 20)>> =>
                   envelope.out.value = <<0, 0, 20, 20>>

C6_Witness ==
    /\ envelope.called
    /\ results = <<Granule(0, 0, 10, 10), Granule(5, 5, 20, 20)>>
    /\ envelope.out.value = <<0, 0, 20, 20>>

(***************************************************************************)
(* Properties of the partitioned writer (Spec).                            *)
(***************************************************************************)
Ended == pc \in {"done", "raised"}

\* The write of beam number bi holds the tables task i returned.
Written(bi, i) ==
    \E k \in 1..Len(sink.log) :
        /\ sink.log[k].beam = beams[bi]
        /\ \E t \in sink.log[k].tables : t.from = i

\* C1: conversion tasks that raise, even all the tasks of a beam, do not abort
\* write_results_by_partition: when no write is rejected the call processes
\* the remaining beams and closes the sink, and the output holds the tables of
\* every task that returned.
C1_FailuresDoNotAbort ==
    (Ended /\ Failures >= 1 /\ error # "OSError") =>
        /\ pc = "done"
        /\ sink.closed
        /\ Len(sink.log) = Len(beams)
        /\ \A bi \in 1..Len(beams) : \A i \in 1..N :
               outcomes[bi][i] = "returned" => Written(bi, i)

\* C2: when k >= 1 conversion tasks raised, write_results_by_partition hands
\* its caller the count k of skipped units.
C2_SkippedCountSurfaced ==
    (pc = "done" /\ skipped >= 1) =>
        /\ "skipped" \in DOMAIN ret
        /\ ret.skipped = skipped

\* C10: every write to the sink is made by the writer, no task writes to it or
\* closes it, at most one write is in progress at any time and no task runs
\* during it, and the sink is closed by the writer's last step only.
C10_SinkOwnedByWriter ==
    /\ \A k \in 1..Len(sink.log) : sink.log[k].by = "writer"
    /\ sink.busy \subseteq {"writer"}
    /\ sink.busy # {} => (pc = "writing" /\ Running = {})
    /\ Len(sink.log) <= beam_index
    /\ sink.closed => pc = "done"

C10_Witness ==
    /\ Len(sink.log) >= 1
    /\ sink.log[1].by = "writer"
    /\ Cardinality(Running) >= 2

\* C11: the concatenation and the write of a beam start only after every task
\* submitted for the beam has returned or raised; a task is pending or running
\* only while the writer submits or waits, after the writes of all earlier
\* beams have returned, and no task of a later beam has been started.
C11_PerBeamBarrier ==
    /\ pc \in {"write", "writing"} => Finished = 1..N
    /\ (\E i \in 1..N : futures[i].state \in {"pending", "running"}) =>
           /\ pc \in {"submit", "wait"}
           /\ Len(sink.log) = beam_index - 1
           /\ sink.busy = {}
    /\ \A bi \in 1..Len(beams) : \A i \in 1..N :
           outcomes[bi][i] # "none" => bi <= beam_index

C11_Witness ==
    /\ pc = "writing"
    /\ beam_index >= 2
    /\ N >= 2
    /\ Finished = 1..N
    /\ \E i \in 1..N : outcomes[beam_index][i] = "raised"

\* C12: in a run on at least one granule in which no write is rejected, the
\* sink receives exactly one write per beam, in the order gt1l, gt1r, gt2l,
\* gt2r, gt3l, gt3r, then exactly one close after the sixth write and no write
\* after it; the run does not end before the close.
C12_OneWritePerBeamThenClose ==
    /\ Len(sink.log) <= Len(beams)
    /\ \A k \in 1..Len(sink.log) : sink.log[k].beam = beams[k]
    /\ sink.closed => Len(sink.log) = Len(beams)
    /\ (Ended /\ N >= 1 /\ error # "OSError") =>
           /\ pc = "done"
           /\ sink.closed
           /\ Len(sink.log) = Len(beams)

\* [min_lon, min_lat, max_lon, max_lat] over the boundary points of granules rs.
EnvelopeOf(rs) ==
    LET pts == AllPoints(rs)
        lons == {p.Longitude : p \in pts}
        lats == {p.Latitude : p \in pts}
    IN  <<SetMin(lons), SetMin(lats), SetMax(lons), SetMax(lats)>>

\* C13: the schema under which the sink is opened and the tables are built and
\* written carries as bbox the envelope of the granules of this call; it is
\* computed before the first task is submitted and the first write made, and
\* on a reused writer it does not depend on the granules of an earlier call.
C13_SchemaCarriesEnvelope ==
    /\ sink.opened =>
           /\ N >= 1
           /\ sink.bbox = EnvelopeOf(results_list)
           /\ results_schema.bbox = EnvelopeOf(results_list)
    /\ (submitted > 0 \/ sink.log # <<>>) => sink.opened

C13_Witness ==
    /\ reused
    /\ N = 1
    /\ Len(sink.log) = Len(beams)
    /\ sink.bbox = <<0, 0, 10, 10>>
    /\ geometadata.bbox = <<0, 0, 10, 10>>

\* C14: update_schema_geo_metadata leaves the writer's state as it was before
\* the call: the stored geometadata document, its nested
\* columns.geometry.bbox included, and the stored schema; only the schema it
\* returns carries the new bbox.
C14_WriterStateUnchanged ==
    [][pc = "start" => (geometadata' = geometadata /\ schema' = schema)]_vars

\* A step in which write_table is left without the table having been written.
Rejection == pc = "writing" /\ sink'.log = sink.log

\* C15 as stated: a rejected write reaches the caller as a WriteError and ends
\* the call, with no task submitted and no write attempted for a later beam.
C15_RejectionIsWriteError ==
    [][/\ Rejection =>
              /\ pc' = "raised"
              /\ error' = "WriteError"
              /\ UNCHANGED <<beam_index, submitted, futures, outcomes>>
       /\ pc = "raised" => pc' = "start"]_vars

\* C15, amended: a rejected write reaches the caller as the exception the sink
\* raised, unmodified, and ends the call: no task is submitted and no write is
\* attempted for a later beam (the only step after it is a new call).
C15_RejectionAborts ==
    [][/\ Rejection =>
              /\ pc' = "raised"
              /\ error' = "OSError"
              /\ UNCHANGED <<beam_index, submitted, futures, outcomes>>
       /\ pc = "raised" => pc' = "start"]_vars

C15_Witness ==
    /\ pc = "raised"
    /\ error = "OSError"
    /\ beam_index = 3
    /\ Len(sink.log) = 2
    /\ ~sink.closed
    /\ \A i \in 1..N : outcomes[4][i] = "none"

\* C16: a conversion that fails fails as a whole with a BeamConversionError
\* that carries the granule identifier and the beam name, and returns no
\* tables.
C16_BeamConversionError ==
    \A i \in 1..N :
        futures[i].state = "raised" =>
            /\ futures[i].tables = <<>>
            /\ futures[i].exception.type = "BeamConversionError"
            /\ futures[i].exception.granule = i
            /\ futures[i].exception.beam = beams[beam_index]

(***************************************************************************)
(* SpecInit: the constructor, ParquetTable(geometadata_file,               *)
(* template_file), and the first schema update of the writer it built.     *)
(***************************************************************************)
\* The groups a template file may hold; a group is only there with its parent.
GroupSets ==
    {{}, {"gt1l"}, {"gt1l", "land_segments"},
     {"gt1l", "land_segments", "canopy"}, {"gt1l", "land_segments", "terrain"},
     {"gt1l", "land_segments", "canopy", "terrain"}}

TemplateFiles == [groups : GroupSets, layout : Layouts]

\* The geometadata files: text that is no JSON, JSON without columns.geometry,
\* and a GeoParquet document (of which the model keeps columns.geometry.bbox).
GeometadataFiles ==
    {[json |-> FALSE, doc |-> [version |-> "1.0.0"]],
     [json |-> TRUE, doc |-> [version |-> "1.0.0"]],
     [json |-> TRUE, doc |-> [bbox |-> DocumentBBox]]}

\* The three group lookups of create_pyarrow_schema, in their order: the
\* first group that is not in the file raises KeyError.
TemplateGroups(template_file) ==
    IF ~({"gt1l", "land_segments"} \subseteq template_file.groups) THEN "KeyError"
    ELSE IF "canopy" \notin template_file.groups THEN "KeyError"
    ELSE IF "terrain" \notin template_file.groups THEN "KeyError"
    ELSE "none"

NotConstructed(type) == [status |-> "raised", error |-> type]

\* __init__: the document is parsed, the template opened, the schema built.
\* The template is opened with the keyword rdcc_bytes, which is not a keyword
\* of h5py.File (rdcc_nbytes is): the installed h5py either refuses it with
\* TypeError or passes it on unused, and keyword_refused says which.
ParquetTable(geometadata_file, template_file, keyword_refused) ==
    IF ~geometadata_file.json THEN NotConstructed("JSONDecodeError")
    ELSE IF keyword_refused THEN NotConstructed("TypeError")
    ELSE IF TemplateGroups(template_file) # "none"
         THEN NotConstructed(TemplateGroups(template_file))
    ELSE [status |-> "constructed", error |-> "none"]

InitInit ==
    /\ conv \in [called : {FALSE}, geometadata_file : GeometadataFiles,
                 template_file : TemplateFiles]
    /\ template = Idle /\ schema = Idle /\ geometadata = Idle
    /\ results_schema = [fields |-> <<>>, bbox |-> <<>>]
    /\ error = "none"
    /\ results = Idle /\ envelope = Idle
    /\ results_list = Idle /\ pc = Idle /\ beam_index = Idle /\ submitted = Idle
    /\ futures = Idle /\ outcomes = Idle /\ combined = Idle /\ sink = Idle
    /\ printed = Idle /\ skipped = Idle /\ ret = Idle /\ reused = Idle
    /\ ModelIdle /\ CookIdle

\* The constructor call: a writer with its document and schema, or an
\* exception and no writer.
Construct ==
    /\ ~conv.called
    /\ \E keyword_refused \in BOOLEAN :
        LET out == ParquetTable(conv.geometadata_file, conv.template_file,
                                keyword_refused) IN
        /\ conv' = [called |-> TRUE, geometadata_file |-> conv.geometadata_file,
                    template_file |-> conv.template_file, out |-> out]
        /\ IF out.status = "constructed"
           THEN /\ geometadata' = conv.geometadata_file.doc
                /\ template' = conv.template_file.layout
                /\ schema' = create_pyarrow_schema(conv.template_file.layout)
           ELSE UNCHANGED <<geometadata, template, schema>>
    /\ UNCHANGED <<results_schema, error, results, envelope, results_list, pc,
                   beam_index, submitted, futures, outcomes, combined, sink, printed,
                   skipped, ret, reused, tutorialVars>>

\* The first update_schema_geo_metadata of the writer built: a document
\* without columns.geometry raises KeyError at the assignment of the bounds.
UpdateCall ==
    /\ conv.called /\ conv.out.status = "constructed"
    /\ results_schema.fields = <<>> /\ error = "none"
    /\ \E k \in 1..MaxGranules :
        LET r == results_bounds(SubSeq(GranulePool, 1, k)) IN
        IF "bbox" \notin DOMAIN geometadata
        THEN /\ error' = "KeyError"
             /\ UNCHANGED <<geometadata, results_schema>>
        ELSE LET u == update_schema_geo_metadata(r.value) IN
             /\ geometadata' = u.geometadata
             /\ results_schema' = u.schema
             /\ UNCHANGED error
    /\ UNCHANGED <<conv, template, schema, results, envelope, results_list, pc,
                   beam_index, submitted, futures, outcomes, combined, sink, printed,
                   skipped, ret, reused, tutorialVars>>

NextInit == Construct \/ UpdateCall

SpecInit == InitInit /\ [][NextInit]_vars

(***************************************************************************)
(* C17: a template file without one of the three expected groups, or a     *)
(* malformed geometadata document, makes the constructor fail with         *)
(* SchemaError, before any conversion or output.                           *)
(*                                                                         *)
(* The code has no SchemaError: the constructor lets JSONDecodeError,       *)
(* KeyError or TypeError through, and a JSON document without               *)
(* columns.geometry constructs a writer whose first schema update raises.   *)
(***************************************************************************)
Malformed(geometadata_file) ==
    ~geometadata_file.json \/ "bbox" \notin DOMAIN geometadata_file.doc

Incomplete(template_file) ==
    ~({"land_segments", "canopy", "terrain"} \subseteq template_file.groups)

C17_SchemaError ==
    (conv.called /\ (Malformed(conv.geometadata_file) \/ Incomplete(conv.template_file)))
        => (conv.out.status = "raised" /\ conv.out.error = "SchemaError")

(***************************************************************************)
(* C18: an exception of the envelope computation (an empty granule         *)
(* collection) leaves write_results_by_partition as it was raised: it is   *)
(* not printed and skipped, no conversion task has been submitted, and     *)
(* the sink has not been opened or written.                                *)
(***************************************************************************)
EnvelopeFailure == results_bounds(results_list).status = "raised"

C18_EnvelopeFailurePropagates ==
    /\ (EnvelopeFailure /\ pc # "start") =>
           /\ pc = "raised"
           /\ error = results_bounds(results_list).error
           /\ printed = 0 /\ skipped = 0
           /\ submitted = 0
           /\ \A bi \in 1..Len(beams) : \A i \in 1..N : outcomes[bi][i] = "none"
           /\ ~sink.opened /\ sink.log = <<>> /\ sink.busy = {}
           /\ ret.value = "pending"
    /\ EnvelopeFailure <=> N = 0

C18_Witness ==
    /\ pc = "raised" /\ EnvelopeFailure
    /\ error = "IndexError"
    /\ reused

(***************************************************************************)
(* C19: the conversion tasks of a beam round share no mutable state: while *)
(* tasks are submitted or running the writer's schema, its geometadata and *)
(* the schema handed to the tasks stay as the writer set them, and the     *)
(* tables a task returned are those of its own granule, beam and schema,   *)
(* whatever the other tasks have done in the meantime.                     *)
(***************************************************************************)
C19_TasksShareNothing ==
    pc \in {"submit", "wait"} =>
        /\ schema = create_pyarrow_schema(template)
        /\ geometadata = [bbox |-> results_bounds(results_list).value]
        /\ results_schema = [fields |-> schema, bbox |-> geometadata.bbox]
        /\ \A i \in 1..N :
               futures[i].state = "returned" =>
                   futures[i].tables =
                       chunks_to_tables(results_list[i].file, beams[beam_index],
                                        schema).tables

C19_Witness ==
    /\ pc = "wait" /\ N = 2
    /\ \A i \in 1..N : futures[i].state = "returned" /\ futures[i].tables # <<>>
    /\ futures[1].tables # futures[2].tables

(***************************************************************************)
(* C21: a call on N granules submits one conversion task for every beam    *)
(* and granule, 6*N in all, none omitted, and never more tasks run at a    *)
(* time than the pool has workers.                                         *)
(*                                                                         *)
(* Stated for the calls that no envelope failure and no rejected write     *)
(* ended.  A beam whose tasks all raise ends the call (C1), and the tasks  *)
(* of the later beams are never submitted.                                 *)
(***************************************************************************)
SubmittedTasks ==
    {u \in (1..Len(beams)) \X (1..N) :
         \/ outcomes[u[1]][u[2]] # "none"
         \/ u[1] = beam_index /\ futures[u[2]].state # "none"}

C21_OneTaskPerBeamAndGranule ==
    /\ Cardinality(Running) <= MaxWorkers
    /\ (Ended /\ error \notin {"IndexError", "OSError"}) =>
           Cardinality(SubmittedTasks) = Len(beams) * N

(***************************************************************************)
(* C22: for every group get_group_chunks returns one array per dataset of  *)
(* the group, in the key order of datasets_to_fields, a dataset chunked in *)
(* two dimensions reduced to its first column; so it returns as many       *)
(* arrays as the schema has fields for the group.                          *)
(*                                                                         *)
(* A dataset whose chunk layout has neither one nor two dimensions gets a  *)
(* field and no array.                                                     *)
(***************************************************************************)
GroupsOf(file) ==
    {LandSegmentsGroup(file.layout), CanopyGroup(file.layout), TerrainGroup(file.layout)}

ArraysFollowFields(group, file) ==
    LET arrays == get_group_chunks(group, file.size, 0, file.chunk_size)
        fields == datasets_to_fields(group)
        members == SelectSeq(group, LAMBDA m : m.kind = "Dataset")
    IN  /\ Len(arrays) = Len(fields)
        /\ \A i \in 1..Len(arrays) :
               /\ arrays[i].src = fields[i].name
               /\ arrays[i].val = IF members[i].ndim = 2 THEN "col0" ELSE "data"

C22_OneArrayPerDataset ==
    conv.called => \A group \in GroupsOf(conv.file) : ArraysFollowFields(group, conv.file)

(***************************************************************************)
(* C23: the column arrays of a table assembled by chunks_to_tables (the    *)
(* segment datasets, geometry, timestamp, beam, strength, the canopy and   *)
(* the terrain datasets) hold the same rows: the same number of rows, read *)
(* at one offset, for beams of one chunk and of several chunks alike.      *)
(***************************************************************************)
Sources(chunks) == {chunks[i].src : i \in 1..Len(chunks)}

C23_ColumnsAligned ==
    conv.called =>
        /\ {"geometry", "timestamp", "beam", "strength"} \subseteq Sources(conv.out.chunks)
        /\ \A i, j \in 1..Len(conv.out.chunks) :
               conv.out.chunks[i].rows = conv.out.chunks[j].rows
        /\ Returned =>
               \A t \in 1..Len(conv.out.tables) :
                   /\ Len(conv.out.tables[t]) = Len(conv.out.chunks)
                   /\ \A i \in 1..Len(conv.out.chunks) :
                          conv.out.tables[t][i].array = conv.out.chunks[i]

C23_Witness ==
    /\ Returned
    /\ conv.out.passes >= 2
    /\ conv.file.layout.canopy # <<>> /\ conv.file.layout.terrain # <<>>
    /\ Len(conv.out.tables) = 1
    /\ Len(conv.out.tables[1][1].array.rows) >= 1

(***************************************************************************)
(* The climate model.  SpecModel is a model constructed as in __main__,    *)
(* and run calls on it.  Temperatures are in hundredths of a degree, and   *)
(* the emission table holds concentrations whose ratios are powers of two, *)
(* so that log2 is exact.                                                  *)
(***************************************************************************)
StartYear == 2015

T0 == 1465

\* The values of c0 a model is constructed with.
InitialCO2 == {200, 400, 800}

Sensitivity == 3

\* SSPEmissions: the table read from the csv file, its first year and the
\* concentrations of the scheme's column, one per year.
FirstTableYear == 2015

SchemeColumn == <<400, 800>>

\* SSPEmissions.get_CO2_ppm: self._co2[year - self._years[0]], a lookup by
\* label that raises KeyError outside the table.
get_CO2_ppm(year) ==
    LET k == year - FirstTableYear IN
    IF k \in 0..(Len(SchemeColumn) - 1)
    THEN [status |-> "returned", ppm |-> SchemeColumn[k + 1]]
    ELSE [status |-> "raised", ppm |-> 0]

\* np.log2(c / c0), on the ratios the table gives rise to.
Log2Ratio(c, c0) ==
    CASE c = c0 -> 0
      [] c = 2 * c0 -> 1
      [] 2 * c = c0 -> -1
      [] c = 4 * c0 -> 2
      [] 4 * c = c0 -> -2

Last(list) == list[Len(list)]

EndYears == (StartYear - 1)..(StartYear + MaxSpan)

\* VSCM(start_year, t0, c0, 3, co2_ppm), lines 11-16 and 63.
InitModel ==
    /\ y0 = StartYear
    /\ time = <<StartYear>>
    /\ temp = <<T0>>
    /\ co2 \in {<<c0>> : c0 \in InitialCO2}
    /\ end_year = StartYear
    /\ run_i = 0
    /\ loop = "idle"
    /\ calls = 0
    /\ template = Idle /\ schema = Idle /\ conv = Idle /\ results = Idle /\ envelope = Idle
    /\ results_list = Idle /\ pc = Idle /\ error = Idle /\ beam_index = Idle /\ submitted = Idle
    /\ futures = Idle /\ outcomes = Idle /\ combined = Idle /\ sink = Idle
    /\ geometadata = Idle /\ results_schema = Idle /\ printed = Idle /\ skipped = Idle
    /\ ret = Idle /\ reused = Idle
    /\ CookIdle

\* run(end_year) is called: i = 0.
RunCall ==
    /\ loop # "loop"
    /\ calls < MaxRuns
    /\ end_year' \in EndYears
    /\ run_i' = 0
    /\ loop' = "loop"
    /\ calls' = calls + 1
    /\ UNCHANGED <<y0, time, temp, co2, cookVars, convVars, envVars, writerVars>>

\* A faulty variant: a year whose concentration is that of the year before
\* gets no new entry in co2.
Iterate_dedup ==
    /\ loop = "loop"
    /\ run_i + Last(time) <= end_year
    /\ LET year == y0 + run_i
           t0 == Last(temp)
           c0 == Last(co2)
           got == get_CO2_ppm(year)
       IN  /\ got.status = "returned"
           /\ time' = Append(time, year)
           /\ co2' = IF got.ppm = c0 THEN co2 ELSE Append(co2, got.ppm)
           /\ temp' = Append(temp, t0 + 100 * Sensitivity * Log2Ratio(got.ppm, c0))
    /\ run_i' = run_i + 1
    /\ UNCHANGED <<y0, end_year, loop, calls, cookVars, convVars, envVars, writerVars>>

\* One pass of the while loop, lines 21-32.
Iterate ==
    /\ loop = "loop"
    /\ run_i + Last(time) <= end_year
    /\ LET year == y0 + run_i
           t0 == Last(temp)
           c0 == Last(co2)
           got == get_CO2_ppm(year)
       IN  /\ got.status = "returned"
           /\ time' = Append(time, year)
           /\ co2' = Append(co2, got.ppm)
           /\ temp' = Append(temp, t0 + 100 * Sensitivity * Log2Ratio(got.ppm, c0))
    /\ run_i' = run_i + 1
    /\ UNCHANGED <<y0, end_year, loop, calls, cookVars, convVars, envVars, writerVars>>

\* A pass in which get_CO2_ppm raises (line 25): the exception leaves run
\* before anything is appended.
RunRaise ==
    /\ loop = "loop"
    /\ run_i + Last(time) <= end_year
    /\ get_CO2_ppm(y0 + run_i).status = "raised"
    /\ loop' = "raised"
    /\ UNCHANGED <<y0, time, temp, co2, end_year, run_i, calls, cookVars, convVars,
                   envVars, writerVars>>

\* The loop condition fails: run returns.
RunReturn ==
    /\ loop = "loop"
    /\ ~(run_i + Last(time) <= end_year)
    /\ loop' = "returned"
    /\ UNCHANGED <<y0, time, temp, co2, end_year, run_i, calls, cookVars, convVars,
                   envVars, writerVars>>

NextModel == RunCall \/ Iterate \/ RunRaise \/ RunReturn

SpecModel == InitModel /\ [][NextModel]_vars

(***************************************************************************)
(* C24: after run(end_year) on a freshly constructed model, with end_year  *)
(* not before the start year, time holds consecutive years, each once,     *)
(* and ends with end_year.                                                 *)
(*                                                                         *)
(* The first pass appends the start year a second time, and the loop       *)
(* condition adds i to a last year that already grew with i, so the run    *)
(* stops about half way.                                                   *)
(***************************************************************************)
C24_ConsecutiveYears ==
    (calls = 1 /\ loop = "returned" /\ end_year >= y0) =>
        /\ \A k \in 1..(Len(time) - 1) : time[k + 1] = time[k] + 1
        /\ Last(time) = end_year

(***************************************************************************)
(* C25: run terminates for every end_year, appending nothing when          *)
(* end_year is before the start year, and through any sequence of run      *)
(* calls time, temp and co2 have the same length, each pass of the loop    *)
(* appending one entry to each.                                            *)
(*                                                                         *)
(* Termination is stated by a measure: a pass is made only while           *)
(* end_year - y0 - i is not negative (no entry of time is before y0), and  *)
(* every pass lowers it.                                                   *)
(***************************************************************************)
Measure == end_year - y0 - run_i

SameLength == Len(time) = Len(temp) /\ Len(temp) = Len(co2)

Pass == loop = "loop" /\ loop' = "loop"

C25_RunTerminatesListsAligned ==
    [][/\ SameLength /\ SameLength'
       /\ Pass => /\ Measure >= 0
                  /\ Measure' < Measure
                  /\ Len(time') = Len(time) + 1
                  /\ Len(temp') = Len(temp) + 1
                  /\ Len(co2') = Len(co2) + 1
       /\ ~Pass => UNCHANGED <<time, temp, co2>>
       /\ (loop = "loop" /\ end_year < y0) => loop' = "returned"]_vars

C25_Witness ==
    /\ calls = 3 /\ loop = "returned"
    /\ end_year < y0
    /\ Len(time) >= 5

(***************************************************************************)
(* The cooks.  SpecCook is the module eggsellent_cook after import, with   *)
(* cooks constructed, and calls of their methods in any order.  A cook's   *)
(* ingredients are None or a list; what is printed is left out.            *)
(***************************************************************************)
Cooks == 1..MaxCooks

InitialTray == <<"pickled walnuts", "steak sauce", "mushy peas">>

FAVORITE_INGREDIENTS == <<"egg", "egg", "egg">>

None == [none |-> TRUE, list |-> <<>>]

List(list) == [none |-> FALSE, list |-> list]

\* _add_ingredients: the argument is rebound, the list built is returned.
_add_ingredients(given) ==
    LET spices == <<"salt", "pepper">>
        you_can_never_have_enough_eggs == <<"egg", "egg">>
        spam == <<"lovely spam", "wonderous spam">>
        more_spam == <<"splendiferous spam", "magnificent spam">>
    IN  spices \o you_can_never_have_enough_eggs \o spam \o more_spam

\* A faulty variant: the sauce is added to a copy of the list passed in.
_prep_condiments_copy(condiments) ==
    [condiments |-> condiments,
     comments |-> <<"Now this is what I call a condiments tray!">>]

\* _prep_condiments: the list passed in is appended to in place; the value
\* returned is the tuple of comments.
_prep_condiments(condiments) ==
    [condiments |-> Append(condiments, "mint sauce"),
     comments |-> <<"Now this is what I call a condiments tray!">>]

Reverse(list) == [k \in 1..Len(list) |-> list[Len(list) + 1 - k]]

Rotate(list) == IF list = <<>> THEN list ELSE Append(Tail(list), Head(list))

\* random.shuffle leaves some permutation of the list; the model draws from
\* the list as add_ingredients built it, reversed, and rotated by one.
Shuffles ==
    LET built == FAVORITE_INGREDIENTS \o _add_ingredients(FAVORITE_INGREDIENTS)
    IN  {built, Reverse(built), Rotate(built)}

InitCook ==
    /\ condiments_tray = InitialTray
    /\ ingredients = [c \in Cooks |-> None]
    /\ served = <<>>
    /\ template = Idle /\ schema = Idle /\ conv = Idle /\ results = Idle /\ envelope = Idle
    /\ results_list = Idle /\ pc = Idle /\ error = Idle /\ beam_index = Idle /\ submitted = Idle
    /\ futures = Idle /\ outcomes = Idle /\ combined = Idle /\ sink = Idle
    /\ geometadata = Idle /\ results_schema = Idle /\ printed = Idle /\ skipped = Idle
    /\ ret = Idle /\ reused = Idle
    /\ ModelIdle

add_ingredients(c) ==
    LET added == _add_ingredients(FAVORITE_INGREDIENTS)
        my_ingredients == FAVORITE_INGREDIENTS
    IN  /\ ingredients' = [ingredients EXCEPT ![c] = List(my_ingredients \o added)]
        /\ UNCHANGED <<condiments_tray, served, modelVars, convVars, envVars, writerVars>>

\* random.shuffle(self.ingredients); on a cook without ingredients it raises
\* TypeError and changes nothing.
prepare_the_food(c) ==
    /\ IF ingredients[c].none
       THEN UNCHANGED ingredients
       ELSE \E shuffled \in Shuffles :
                ingredients' = [ingredients EXCEPT ![c] = List(shuffled)]
    /\ UNCHANGED <<condiments_tray, served, modelVars, convVars, envVars, writerVars>>

\* serve_the_food: the tray is handed to _prep_condiments, then the prints;
\* ', '.join(self.ingredients) raises TypeError on a cook without ingredients,
\* after the tray was appended to.
serve_the_food(c) ==
    /\ Len(served) < MaxServes
    /\ LET condiment_comments == _prep_condiments(condiments_tray) IN
       /\ condiments_tray' = condiment_comments.condiments
       /\ served' = Append(served, [cook |-> c,
                                    raised |-> IF ingredients[c].none THEN "TypeError"
                                               ELSE "none"])
    /\ UNCHANGED <<ingredients, modelVars, convVars, envVars, writerVars>>

NextCook ==
    \E c \in Cooks : add_ingredients(c) \/ prepare_the_food(c) \/ serve_the_food(c)

SpecCook == InitCook /\ [][NextCook]_vars

(***************************************************************************)
(* C26: every serve_the_food call, of any cook and in any order, appends   *)
(* one "mint sauce" to the condiments_tray all cooks share: after n calls  *)
(* the tray has 3 + n entries, the first three as they were; and a serve   *)
(* call leaves the cook's ingredients as they were.                        *)
(***************************************************************************)
TrayAfterServes ==
    /\ Len(condiments_tray) = 3 + Len(served)
    /\ SubSeq(condiments_tray, 1, 3) = InitialTray
    /\ \A k \in 4..Len(condiments_tray) : condiments_tray[k] = "mint sauce"

C26_ServeAppendsOneSauce ==
    [][/\ TrayAfterServes /\ TrayAfterServes'
       /\ served' # served =>
              /\ Len(condiments_tray') = Len(condiments_tray) + 1
              /\ ingredients' = ingredients]_vars

C26_Witness ==
    /\ Len(served) = 3
    /\ \E j, k \in 1..Len(served) :
           /\ served[j].cook # served[k].cook
           /\ served[j].raised = "TypeError" /\ served[k].raised = "none"
    /\ Len(condiments_tray) = 6

====
